---- MODULE Spec2Model ----
(***************************************************************************)
(* Model of src/DA.py: the SleepDisorderApp object (artifact loading, the  *)
(* input form, preprocess_input, model.predict, display_prediction and     *)
(* display_recommendations) and the LabelEncoderTransformer that the       *)
(* pickled preprocessor is built from.                                     *)
(*                                                                         *)
(* Fixed-point conventions: 'Sleep Duration' is held in tenths of an hour  *)
(* (7.5 h = 75), its square root in thousandths (sqrt(7.5) = 2738), and a  *)
(* prediction label in tenths (1.0 = 10, 0.5 = 5).                         *)
(* Python's None is the empty tuple << >>, a present value x is << x >>.   *)
(***************************************************************************)
EXTENDS Integers, Sequences, FiniteSets, TLC

\* Number of times run() is entered on one constructed app object.
MaxRequests == 2

None == << >>

Some(x) == << x >>

Range(s) == { s[i] : i \in 1..Len(s) }

----------------------------------------------------------------------------
(* setup_constants                                                         *)

OCCUPATIONS ==
  << "Others", "Doctor", "Teacher", "Nurse", "Engineer",
     "Accountant", "Lawyer", "Salesperson" >>

BMI_CATEGORIES == << "Normal Weight", "Overweight", "Obese" >>

GENDERS == << "Male", "Female" >>

\* A mapping with the entries of 1.0 and 2.0 exchanged.
DISORDER_MAPPING_swapped ==
  [ k \in {0, 10, 20} |->
      CASE k = 0  -> << "Insomnia", "red" >>
        [] k = 10 -> << "Sleep Apnea", "orange" >>
        [] k = 20 -> << "No Disorder", "green" >> ]

\* self.DISORDER_MAPPING, keyed by the label in tenths.
DISORDER_MAPPING ==
  [ k \in {0, 10, 20} |->
      CASE k = 0  -> << "Insomnia", "red" >>
        [] k = 10 -> << "No Disorder", "green" >>
        [] k = 20 -> << "Sleep Apnea", "orange" >> ]

\* dict.get(key, default)
DictGet(d, key, default) == IF key \in DOMAIN d THEN d[key] ELSE default

----------------------------------------------------------------------------
(* get_user_input: the twelve widgets of the form                          *)

Fields ==
  << "Gender", "Age", "Sleep Duration", "Occupation", "Quality of Sleep",
     "Physical Activity Level", "Stress Level", "BMI Category", "Systolic",
     "Diastolic", "Heart Rate", "Daily Steps" >>

FieldSet == Range(Fields)

CategoricalFields == { "Gender", "Occupation", "BMI Category" }

NumericFields == FieldSet \ CategoricalFields

\* min_value / max_value / value of each numeric widget; hasMax is FALSE
\* where the code passes no max_value.
Widget(f) ==
  CASE f = "Age" ->
         [min |-> 18, max |-> 100, hasMax |-> TRUE, value |-> 30]
    [] f = "Sleep Duration" ->
         [min |-> 0, max |-> 240, hasMax |-> TRUE, value |-> 75]
    [] f = "Quality of Sleep" ->
         [min |-> 1, max |-> 10, hasMax |-> TRUE, value |-> 7]
    [] f = "Physical Activity Level" ->
         [min |-> 0, max |-> 0, hasMax |-> FALSE, value |-> 30]
    [] f = "Stress Level" ->
         [min |-> 1, max |-> 10, hasMax |-> TRUE, value |-> 5]
    [] f = "Systolic" ->
         [min |-> 70, max |-> 200, hasMax |-> TRUE, value |-> 120]
    [] f = "Diastolic" ->
         [min |-> 40, max |-> 130, hasMax |-> TRUE, value |-> 80]
    [] f = "Heart Rate" ->
         [min |-> 40, max |-> 200, hasMax |-> TRUE, value |-> 70]
    [] f = "Daily Steps" ->
         [min |-> 0, max |-> 50000, hasMax |-> TRUE, value |-> 10000]

\* options of each selectbox; the first option is the initial selection.
Options(f) ==
  CASE f = "Gender" -> GENDERS
    [] f = "Occupation" -> OCCUPATIONS
    [] f = "BMI Category" -> BMI_CATEGORIES

InRange(f, v) ==
  /\ v >= Widget(f).min
  /\ Widget(f).hasMax => v <= Widget(f).max

\* What the user has in every widget before touching the form.
Defaults ==
  [ f \in FieldSet |->
      IF f \in CategoricalFields THEN Options(f)[1] ELSE Widget(f).value ]

\* Values a user may try to enter in a numeric widget: one below the
\* minimum, the minimum, the initial value, the maximum and one above it
\* (a large value where there is no maximum).
TypedNumbers(f) ==
  LET w == Widget(f)
  IN  { w.min - 1, w.min, w.value } \cup
      (IF w.hasMax THEN { w.max, w.max + 1 } ELSE { w.value + 970 })

TypedValues(f) ==
  IF f \in CategoricalFields THEN Range(Options(f)) ELSE TypedNumbers(f)

\* The forms that are submitted: the initial form with one widget edited.
TypedInputs ==
  { Defaults } \cup
  UNION { { [Defaults EXCEPT ![f] = v] : v \in TypedValues(f) } : f \in FieldSet }

\* A number_input without min_value and max_value.
number_input_unchecked(f, entered, mode) == entered

\* st.number_input / st.slider with min_value and max_value: the returned
\* value always lies in the widget's range.  A value typed outside the range
\* is, depending on the front end, either clamped to the nearest bound or
\* discarded in favour of the widget's value.
number_input(f, entered, mode) ==
  IF InRange(f, entered) THEN entered
  ELSE IF mode = "reset" THEN Widget(f).value
  ELSE IF entered < Widget(f).min THEN Widget(f).min
  ELSE Widget(f).max

WidgetModes == { "clamp", "reset" }

\* The dict returned by get_user_input: every entry is a one-element list.
input_dict(typed, mode) ==
  [ f \in FieldSet |->
      IF f \in CategoricalFields THEN << typed[f] >>
      ELSE << number_input(f, typed[f], mode) >> ]

----------------------------------------------------------------------------
(* numpy / pandas helpers used by preprocess_input                         *)

RECURSIVE isqrt_search(_, _, _)
isqrt_search(x, lo, hi) ==
  IF lo >= hi THEN lo
  ELSE LET mid == (lo + hi + 1) \div 2
       IN  IF mid * mid <= x THEN isqrt_search(x, mid, hi)
           ELSE isqrt_search(x, lo, mid - 1)

\* np.sqrt on one value: tenths of an hour in, thousandths out.
np_sqrt(h) == isqrt_search(h * 100000, 0, 5000)

\* np.sqrt on a column.
np_sqrt_col(col) == [ i \in 1..Len(col) |-> np_sqrt(col[i]) ]

\* data[name] = col : adds or overwrites one column, keeps the others.
SetColumn(data, name, col) ==
  [ c \in (DOMAIN data) \cup { name } |-> IF c = name THEN col ELSE data[c] ]

\* data.drop(columns=[name])
DropColumn(data, name) == [ c \in (DOMAIN data) \ { name } |-> data[c] ]

----------------------------------------------------------------------------
(* LabelEncoderTransformer and sklearn's LabelEncoder                      *)

\* Sort order of the category strings (np.unique sorts its result).
Alphabetical ==
  << "Accountant", "Doctor", "Engineer", "Female", "Lawyer", "Male",
     "Normal Weight", "Nurse", "Obese", "Others", "Overweight",
     "Salesperson", "Teacher" >>

CatRank(s) == CHOOSE i \in 1..Len(Alphabetical) : Alphabetical[i] = s

RECURSIVE SortedSeq(_)
SortedSeq(S) ==
  IF S = {} THEN << >>
  ELSE LET m == CHOOSE x \in S : \A y \in S : CatRank(x) <= CatRank(y)
       IN  << m >> \o SortedSeq(S \ { m })

IndexOf(seq, v) == CHOOSE i \in 1..Len(seq) : seq[i] = v

\* LabelEncoder() before any fit: it has no classes_.
UnfittedEncoder == [ fitted |-> FALSE, classes_ |-> << >> ]

\* An encoder that keeps the classes it already has and adds those of col.
fit_transform_keeps_classes(encoder, col) ==
  LET classes == SortedSeq(Range(encoder.classes_) \cup Range(col))
  IN  [ encoder |-> [ fitted |-> TRUE, classes_ |-> classes ],
        codes   |-> [ i \in 1..Len(col) |-> IndexOf(classes, col[i]) - 1 ] ]

\* LabelEncoder.fit_transform(col): classes_ is recomputed from col alone,
\* then col is coded by position in classes_.  Returns the encoder after the
\* call and the codes.
fit_transform(encoder, col) ==
  LET classes == SortedSeq(Range(col))
  IN  [ encoder |-> [ fitted |-> TRUE, classes_ |-> classes ],
        codes   |-> [ i \in 1..Len(col) |-> IndexOf(classes, col[i]) - 1 ] ]

\* X.apply(self.encoder.fit_transform): the one encoder object is applied
\* to the columns of X in turn.  Returns the encoder after the last column
\* and the coded first row of every column.
RECURSIVE LabelEncoderTransformer_transform(_, _, _)
LabelEncoderTransformer_transform(encoder, X, columns) ==
  IF columns = << >> THEN [ encoder |-> encoder, row |-> << >> ]
  ELSE LET r    == fit_transform(encoder, X[Head(columns)])
           rest == LabelEncoderTransformer_transform(r.encoder, X, Tail(columns))
       IN  [ encoder |-> rest.encoder, row |-> << r.codes[1] >> \o rest.row ]

----------------------------------------------------------------------------
(* The two pickled artifacts                                               *)

CatColumns == << "Gender", "Occupation", "BMI Category" >>

\* Numeric columns of a preprocessor fitted on the frame preprocess_input
\* builds.
NumColumns ==
  << "Age", "Quality of Sleep", "Physical Activity Level", "Stress Level",
     "Systolic", "Diastolic", "Heart Rate", "Daily Steps",
     "Sleep Duration Sqrt" >>

\* Numeric columns of a preprocessor fitted on a frame that still had the
\* raw 'Sleep Duration' column (an artifact that does not match the app).
DriftedNumColumns ==
  << "Age", "Quality of Sleep", "Physical Activity Level", "Stress Level",
     "Systolic", "Diastolic", "Heart Rate", "Daily Steps",
     "Sleep Duration" >>

\* Encoder state pickled after the training-time transform: the classes of
\* the last categorical column of the training frame.
TrainedEncoder ==
  [ fitted |-> TRUE, classes_ |-> SortedSeq(Range(BMI_CATEGORIES)) ]

\* Contents preprocessor.pkl may have.
PreprocessorPickles ==
  [ catColumns : { CatColumns },
    numColumns : { NumColumns, DriftedNumColumns },
    center     : { 0, 10 },
    encoder    : { UnfittedEncoder, TrainedEncoder } ]

\* Contents sleep_disorder_random_forest_model.pkl may have: the number of
\* features it was fitted on and the labels it can return.
ModelPickles ==
  [ n_features_in_ : { Len(CatColumns) + Len(NumColumns), Len(NumColumns) },
    classes_       : { << 0, 10, 20 >>, << 0, 5, 10, 20, 30 >> } ]

RECURSIVE SumSeq(_)
SumSeq(s) == IF s = << >> THEN 0 ELSE Head(s) + SumSeq(Tail(s))

\* self.preprocessor.transform(data): raises when a column it was fitted on
\* is missing; otherwise label-encodes the categorical columns and centres
\* the numeric ones.  raised = TRUE stands for the exception.
preprocessor_transform(pre, data) ==
  IF \E c \in Range(pre.catColumns) \cup Range(pre.numColumns) : c \notin DOMAIN data
  THEN [ raised |-> TRUE, pre |-> pre, out |-> << >> ]
  ELSE LET enc == LabelEncoderTransformer_transform(pre.encoder, data, pre.catColumns)
           num == [ i \in 1..Len(pre.numColumns) |->
                      data[pre.numColumns[i]][1] - pre.center ]
       IN  [ raised |-> FALSE,
             pre    |-> [ pre EXCEPT !.encoder = enc.encoder ],
             out    |-> enc.row \o num ]

\* self.model.predict(X): raises when X is None or a feature vector of the
\* wrong width; otherwise returns a one-element array holding one of the
\* model's labels, chosen by the features alone.
model_predict(mdl, X) ==
  IF X = None \/ Len(X[1]) # mdl.n_features_in_
  THEN [ raised |-> TRUE, out |-> << >> ]
  ELSE [ raised |-> FALSE,
         out    |-> << mdl.classes_[(SumSeq(X[1]) % Len(mdl.classes_)) + 1] >> ]

----------------------------------------------------------------------------
(* display_recommendations                                                 *)

recommendations ==
  [ d \in { "Insomnia", "Sleep Apnea", "No Disorder" } |->
      CASE d = "Insomnia" ->
             << "Maintain a consistent sleep schedule",
                "Create a relaxing bedtime routine",
                "Avoid screens before bedtime",
                "Consider consulting a sleep specialist" >>
        [] d = "Sleep Apnea" ->
             << "Sleep on your side instead of your back",
                "Maintain a healthy weight",
                "Consider using a CPAP machine",
                "Consult a healthcare provider for proper diagnosis" >>
        [] d = "No Disorder" ->
             << "Continue maintaining good sleep habits",
                "Stay physically active",
                "Monitor sleep quality regularly",
                "Practice stress management" >> ]

\* A display that stops after the third recommendation.
display_recommendations_three(disorder) ==
  IF disorder \in DOMAIN recommendations
  THEN SubSeq(recommendations[disorder], 1, 3)
  ELSE << >>

\* The "- rec" lines display_recommendations writes for a disorder.
display_recommendations(disorder) ==
  IF disorder \in DOMAIN recommendations THEN recommendations[disorder] ELSE << >>

\* What display_prediction puts on the page for a prediction array.
display_prediction(pred) ==
  LET entry == DictGet(DISORDER_MAPPING, pred[1], << "Unknown", "gray" >>)
  IN  [ disorder |-> entry[1], color |-> entry[2],
        recommendations |-> display_recommendations(entry[1]) ]

----------------------------------------------------------------------------
(* State                                                                   *)

VARIABLES
  files,          \* per artifact file: "present", "absent" or "unreadable"
  disk,           \* what the two pickles hold
  pc,             \* position of the script
  model,          \* self.model
  preprocessor,   \* self.preprocessor
  uncaught,       \* an exception left the script
  requests,       \* number of times run() was entered
  typed,          \* what the user entered in the form of this request
  submit_button,  \* first return value of get_user_input
  input_data,     \* second return value of get_user_input
  input_df,       \* the DataFrame built from input_data
  handed,         \* the frame passed to self.preprocessor.transform
  processed_data, \* return value of preprocess_input
  prediction,     \* return value of self.model.predict
  shown,          \* the result display_prediction put on the page
  errors,         \* the st.error messages of this request (or of the load)
  calls,          \* the artifact and display calls made in this request
  entry_encoder   \* the preprocessor's encoder when this request began

vars ==
  << files, disk, pc, model, preprocessor, uncaught, requests, typed,
     submit_button, input_data, input_df, handed, processed_data, prediction,
     shown, errors, calls, entry_encoder >>

FileStates == { "present", "absent", "unreadable" }

ERR_LOAD == "Error loading model files"

ERR_PREPROCESS == "Error in preprocessing"

ERR_PREDICT == "Error making prediction"

\* An except block that does not report.
st_error_swallowed(page, message) == page

\* st.error(message): the message is put on the page.
st_error(page, message) == Append(page, message)

Init ==
  /\ files \in [ model : FileStates, preprocessor : FileStates ]
  /\ disk \in [ model : ModelPickles, preprocessor : PreprocessorPickles ]
  /\ pc = "start"
  /\ model = None
  /\ preprocessor = None
  /\ uncaught = FALSE
  /\ requests = 0
  /\ typed = Defaults
  /\ submit_button = FALSE
  /\ input_data = None
  /\ input_df = None
  /\ handed = None
  /\ processed_data = None
  /\ prediction = None
  /\ shown = None
  /\ errors = << >>
  /\ calls = << >>
  /\ entry_encoder = None

\* SleepDisorderApp.__init__: load_models, then setup_constants and
\* setup_style.  joblib.load raises FileNotFoundError for an absent file and
\* another exception (PermissionError, UnpicklingError, ...) for a file that
\* is there but cannot be read; only FileNotFoundError is caught.  The model
\* is loaded first, and a failure ends load_models at once: st.stop() ends
\* the script, an exception that is not caught leaves it.
load_models ==
  /\ pc = "start"
  /\ LET first == IF files.model # "present" THEN files.model
                  ELSE files.preprocessor
     IN  /\ model' = IF files.model = "present" THEN Some(disk.model) ELSE None
         /\ preprocessor' = IF first = "present" THEN Some(disk.preprocessor)
                            ELSE None
         /\ errors' = IF first = "absent" THEN st_error(errors, ERR_LOAD)
                      ELSE errors
         /\ uncaught' = (first = "unreadable")
         /\ pc' = CASE first = "present"    -> "ready"
                    [] first = "absent"     -> "stopped"
                    [] first = "unreadable" -> "crashed"
  /\ UNCHANGED << files, disk, requests, typed, submit_button, input_data,
                  input_df, handed, processed_data, prediction, shown, calls,
                  entry_encoder >>

\* run, up to the call of preprocess_input: the form is drawn and read; if
\* it was submitted the DataFrame is built, otherwise run returns.
get_user_input ==
  /\ pc \in { "ready", "done" }
  /\ requests < MaxRequests
  /\ \E t \in TypedInputs, mode \in WidgetModes, submit \in BOOLEAN :
       /\ typed' = t
       /\ submit_button' = submit
       /\ input_data' = Some(input_dict(t, mode))
       /\ input_df' = IF submit THEN Some(input_dict(t, mode)) ELSE None
       /\ pc' = IF submit THEN "preprocess" ELSE "done"
  /\ requests' = requests + 1
  /\ entry_encoder' = Some(preprocessor[1].encoder)
  /\ handed' = None
  /\ processed_data' = None
  /\ prediction' = None
  /\ shown' = None
  /\ errors' = << >>
  /\ calls' = << >>
  /\ UNCHANGED << files, disk, model, preprocessor, uncaught >>

\* The first statement of preprocess_input: the derived column is added to
\* the frame it was given.
with_sqrt(data) ==
  SetColumn(data, "Sleep Duration Sqrt", np_sqrt_col(data["Sleep Duration"]))

\* A preprocess_input that does not drop the raw column.
preprocess_frame_keeps_hours(data) == with_sqrt(data)

\* The second statement: the frame passed to the preprocessor.
preprocess_frame(data) == DropColumn(with_sqrt(data), "Sleep Duration")

\* A run that does not test the value preprocess_input returned.
run_continues_always(processed) == TRUE

\* run's test of the value preprocess_input returned.
run_continues(processed) == processed # None

\* preprocess_input(input_df), and the test of its result in run.
preprocess_input ==
  /\ pc = "preprocess"
  /\ LET data == preprocess_frame(input_df[1])
         r    == preprocessor_transform(preprocessor[1], data)
         ret  == IF r.raised THEN None ELSE Some(r.out)
     IN  /\ input_df' = Some(with_sqrt(input_df[1]))
         /\ handed' = Some(data)
         /\ calls' = Append(calls, "transform")
         /\ preprocessor' = Some(r.pre)
         /\ errors' = IF r.raised THEN st_error(errors, ERR_PREPROCESS)
                      ELSE errors
         /\ processed_data' = ret
         /\ pc' = IF run_continues(ret) THEN "predict" ELSE "done"
  /\ UNCHANGED << files, disk, model, uncaught, requests, typed,
                  submit_button, input_data, prediction, shown,
                  entry_encoder >>

\* self.model.predict(processed_data) inside run's try block.
predict ==
  /\ pc = "predict"
  /\ LET r == model_predict(model[1], processed_data)
     IN  /\ calls' = Append(calls, "predict")
         /\ errors' = IF r.raised THEN st_error(errors, ERR_PREDICT)
                      ELSE errors
         /\ prediction' = IF r.raised THEN None ELSE Some(r.out)
         /\ pc' = IF r.raised THEN "done" ELSE "display"
  /\ UNCHANGED << files, disk, model, preprocessor, uncaught, requests,
                  typed, submit_button, input_data, input_df, handed,
                  processed_data, shown, entry_encoder >>

\* self.display_prediction(prediction), which ends run.
show_prediction ==
  /\ pc = "display"
  /\ IF prediction # None
     THEN /\ shown' = Some(display_prediction(prediction[1]))
          /\ calls' = Append(calls, "display")
     ELSE UNCHANGED << shown, calls >>
  /\ pc' = "done"
  /\ UNCHANGED << files, disk, model, preprocessor, uncaught, requests,
                  typed, submit_button, input_data, input_df, handed,
                  processed_data, prediction, errors, entry_encoder >>

Next ==
  \/ load_models
  \/ get_user_input
  \/ preprocess_input
  \/ predict
  \/ show_prediction

Spec == Init /\ [][Next]_vars

TypeOK ==
  /\ pc \in { "start", "stopped", "crashed", "ready", "preprocess",
              "predict", "display", "done" }
  /\ requests \in 0..MaxRequests
  /\ typed \in TypedInputs
  /\ submit_button \in BOOLEAN
  /\ uncaught \in BOOLEAN

----------------------------------------------------------------------------
(* Properties                                                              *)

Called(stage) == stage \in Range(calls)

Reported(message) == message \in Range(errors)

Loaded == pc \in { "ready", "preprocess", "predict", "display", "done" }

ArtifactFailureReported ==
  (pc # "start" /\ (files.model # "present" \/ files.preprocessor # "present"))
    => /\ Reported(ERR_LOAD)
       /\ pc = "stopped"
       /\ requests = 0
       /\ calls = << >>

\* C3: the displayed name and colour follow the lookup table for the labels
\* 0.0, 1.0 and 2.0, every other label gives ("Unknown", gray), and a label
\* that was predicted is always displayed without an error.
MapperFollowsTable ==
  /\ shown # None =>
       LET label == prediction[1][1]
           r     == shown[1]
       IN  /\ label = 0  => r.disorder = "Insomnia" /\ r.color = "red"
           /\ label = 10 => r.disorder = "No Disorder" /\ r.color = "green"
           /\ label = 20 => r.disorder = "Sleep Apnea" /\ r.color = "orange"
           /\ label \notin { 0, 10, 20 } =>
                r.disorder = "Unknown" /\ r.color = "gray"
  /\ (pc = "done" /\ prediction # None) => shown # None /\ errors = << >>

\* A label outside the table was mapped.
UnknownLabelMapped ==
  /\ pc = "done"
  /\ shown # None
  /\ prediction[1][1] \notin { 0, 10, 20 }
  /\ shown[1].disorder = "Unknown"

\* The error a validator would report for a field.
ValidationError(f) ==
  CASE f = "Age" -> "ValidationError: Age"
    [] f = "Sleep Duration" -> "ValidationError: Sleep Duration"
    [] f = "Quality of Sleep" -> "ValidationError: Quality of Sleep"
    [] f = "Physical Activity Level" -> "ValidationError: Physical Activity Level"
    [] f = "Stress Level" -> "ValidationError: Stress Level"
    [] f = "Systolic" -> "ValidationError: Systolic"
    [] f = "Diastolic" -> "ValidationError: Diastolic"
    [] f = "Heart Rate" -> "ValidationError: Heart Rate"
    [] f = "Daily Steps" -> "ValidationError: Daily Steps"

HandedFrameShape ==
  handed # None =>
    LET frame == handed[1]
        hours == input_data[1]["Sleep Duration"][1]
        root  == frame["Sleep Duration Sqrt"][1]
    IN  /\ DOMAIN frame =
             (FieldSet \ { "Sleep Duration" }) \cup { "Sleep Duration Sqrt" }
        /\ Cardinality(DOMAIN frame) = 12
        /\ \A f \in FieldSet \ { "Sleep Duration" } : frame[f] = input_data[1][f]
        /\ root * root <= hours * 100000
        /\ (root + 1) * (root + 1) > hours * 100000

\* A frame was handed to the transformer for a form whose sleep duration was
\* edited.
FrameHanded ==
  /\ handed # None
  /\ Called("transform")
  /\ input_data[1]["Sleep Duration"][1] = 240

\* C6: once loaded, the transformer and the classifier stay equal to what
\* was loaded, whatever requests are processed.
ArtifactsNeverChange ==
  Loaded => model = Some(disk.model) /\ preprocessor = Some(disk.preprocessor)

\* C7 as stated: three guidance strings for each of the three disorders, none
\* for "Unknown".
ThreeRecommendations ==
  shown # None =>
    /\ shown[1].disorder \in { "Insomnia", "Sleep Apnea", "No Disorder" }
         => Len(shown[1].recommendations) = 3
    /\ shown[1].disorder = "Unknown" => shown[1].recommendations = << >>

\* C7 as amended: the recommendations are fixed by the disorder name: four
\* guidance strings for each of "Insomnia", "Sleep Apnea" and "No Disorder",
\* always the same four in the same order, and none for "Unknown".
FourRecommendations ==
  shown # None =>
    LET d == shown[1].disorder
        r == shown[1].recommendations
    IN  /\ d \in { "Insomnia", "Sleep Apnea", "No Disorder", "Unknown" }
        /\ d # "Unknown" => Len(r) = 4
        /\ d = "Insomnia" =>
             /\ r[1] = "Maintain a consistent sleep schedule"
             /\ r[4] = "Consider consulting a sleep specialist"
        /\ d = "Sleep Apnea" =>
             /\ r[1] = "Sleep on your side instead of your back"
             /\ r[4] = "Consult a healthcare provider for proper diagnosis"
        /\ d = "No Disorder" =>
             /\ r[1] = "Continue maintaining good sleep habits"
             /\ r[4] = "Practice stress management"
        /\ d = "Unknown" => r = << >>

\* Recommendations were shown for a disorder of the table.
RecommendationsShown ==
  /\ shown # None
  /\ shown[1].disorder = "Insomnia"
  /\ Len(shown[1].recommendations) > 0

\* C8: a failure of the transform stage or of the inference stage is always
\* reported, by a message that tells the two stages apart and is not the
\* message of a load failure; a submitted request that reported nothing has
\* displayed a result.
NoSilentFailure ==
  /\ (Called("transform") /\ processed_data = None /\ pc # "preprocess")
       => errors = << ERR_PREPROCESS >>
  /\ (Called("predict") /\ prediction = None /\ pc # "predict")
       => errors = << ERR_PREDICT >>
  /\ Cardinality({ ERR_LOAD, ERR_PREPROCESS, ERR_PREDICT }) = 3
  /\ (pc = "done" /\ submit_button /\ errors = << >>) => shown # None

\* A request whose inference stage failed has ended.
InferenceFailureEnded ==
  /\ pc = "done"
  /\ calls = << "transform", "predict" >>
  /\ prediction = None
  /\ errors = << ERR_PREDICT >>

\* C9: the feature vector and the outcome of a request are those a freshly
\* loaded app computes for the same form values, whatever requests the app
\* processed before; so two requests with the same values and the same
\* artifacts end alike.
RequestsIndependent ==
  (submit_button /\ pc \in { "predict", "display", "done" }) =>
    LET t == preprocessor_transform(disk.preprocessor,
                                    preprocess_frame(input_data[1]))
        features == IF t.raised THEN None ELSE Some(t.out)
        p == model_predict(disk.model, features)
    IN  /\ processed_data = features
        /\ pc = "done" =>
             /\ errors = IF t.raised THEN << ERR_PREPROCESS >>
                         ELSE IF p.raised THEN << ERR_PREDICT >>
                         ELSE << >>
             /\ shown = IF t.raised \/ p.raised THEN None
                        ELSE Some(display_prediction(p.out))

\* A request displayed its result on an app whose encoder an earlier request
\* had left different from the loaded one.
ResultAfterEarlierRequest ==
  /\ pc = "done"
  /\ requests > 1
  /\ shown # None
  /\ entry_encoder # Some(disk.preprocessor.encoder)

\* The state of a request that has ended.
OneOutcome ==
  /\ (pc = "done" /\ submit_button) =>
       \/ /\ shown # None
          /\ errors = << >>
          /\ calls = << "transform", "predict", "display" >>
       \/ /\ shown = None
          /\ Len(errors) = 1
          /\ ~Called("display")
  /\ ~(shown # None /\ errors # << >>)
  /\ ~submit_button => calls = << >> /\ shown = None /\ errors = << >>
  /\ Len(calls) <= 3
  /\ \A i \in 1..Len(calls) : calls[i] = << "transform", "predict", "display" >>[i]

====
